---------------------------- MODULE Spec2Model ----------------------------
(***************************************************************************)
(* Model of src/template/convert_to_no_comment.js: the document-builder    *)
(* script that opens a file, deletes every comment and saves the result    *)
(* as output.<ext>.                                                        *)
(*                                                                         *)
(* The script is a straight line of host calls.  Every host call is one    *)
(* action; a host call either returns or throws, and the script has no     *)
(* try/catch, so a throw ends the run.  The host keeps files by path; the  *)
(* opened document is an in-session copy of the file.  The array returned  *)
(* by GetAllComments is either a snapshot or a live view of the document's *)
(* comment list (variable live), which the script does not control.        *)
(***************************************************************************)
EXTENDS Integers, Sequences, FiniteSets, TLC

\* ---------------------------------------------------------------- bounds
MaxN == 3          \* largest number of comments of a source document
MaxRuns == 2       \* number of successive invocations of the script

\* ---------------------------------------------------------------- inputs
\* values substituted for ${ext}; "pdf" stands for every unsupported value
Exts == {"doc", "docx", "xls", "xlsx", "pdf"}
\* values substituted for ${fileUrl}
FileUrls == {"report.docx", "output.docx", "output.xlsx"}
\* every path the host file store is asked about
Paths == {"report.docx", "output.doc", "output.docx", "output.xls",
          "output.xlsx", "output.pdf"}
\* non-comment content of a document
Contents == {"text1", "text2"}

NoFile == [exists |-> FALSE, content |-> "", comments |-> << >>]
MkDoc(text, n) == [exists |-> TRUE, content |-> text, comments |-> [k \in 1..n |-> k]]
NoPrev == [path |-> "none", doc |-> NoFile]

\* ----------------------------------------------------------------- state
VARIABLES
    fileUrl,      \* ${fileUrl}
    ext,          \* ${ext}
    live,         \* host: the array of GetAllComments shrinks on Delete
    fs,           \* host file store: path -> document
    fs0,          \* fs when the current run started
    run,          \* number of the current invocation
    prev,         \* output of the previous run, when it completed
    pc,           \* statement the script is at
    oDocument,    \* var oDocument
    session,      \* the in-session copy of the opened document
    sessionOpen,  \* a host session is open and not closed
    aComments,    \* var aComments
    fetched,      \* aComments as GetAllComments returned it
    i,            \* var i
    visited,      \* comments Delete was called on, in call order
    log,          \* host calls issued in this run, in order
    failed,       \* the call that threw, "none" if none did
    written       \* files written in this run: <<[format, name]>>

vars == <<fileUrl, ext, live, fs, fs0, run, prev, pc, oDocument, session,
          sessionOpen, aComments, fetched, i, visited, log, failed, written>>

\* ------------------------------------------------------- script fragments
\* the case labels of switch (ext)
Supported == {"doc", "docx", "xls", "xlsx"}

\* switch (ext): the host accessors called, in call order
Accessors_NoBreak(e) ==
    IF e \in {"doc", "docx"} THEN <<"GetDocument", "GetActiveSheet">>
    ELSE IF e \in {"xls", "xlsx"} THEN <<"GetActiveSheet">>
    ELSE << >>
Accessors_Default(e) ==
    IF e \in {"doc", "docx"} THEN <<"GetDocument">>
    ELSE IF e \in {"xls", "xlsx"} THEN <<"GetActiveSheet">>
    ELSE <<"GetDocument">>
Accessors(e) ==
    IF e \in {"doc", "docx"} THEN <<"GetDocument">>
    ELSE IF e \in {"xls", "xlsx"} THEN <<"GetActiveSheet">>
    ELSE << >>

\* "output.${ext}"
OutputName_Literal(e) == "output.docx"
OutputName_InPlace(e) == fileUrl
OutputName(e) == "output." \o e

\* i < aComments.length
LoopCond(idx, arr) == idx < Len(arr)

\* the statement that follows statement p in the script text
NextStmt_CloseFirst(p) ==
    CASE p = "open" -> "switch"
      [] p = "switch" -> "enumerate"
      [] p = "enumerate" -> "loop"
      [] p = "loop" -> "close"
      [] p = "close" -> "save"
      [] p = "save" -> "done"
      [] OTHER -> "done"
NextStmt_NoClose(p) ==
    CASE p = "open" -> "switch"
      [] p = "switch" -> "enumerate"
      [] p = "enumerate" -> "loop"
      [] p = "loop" -> "save"
      [] p = "save" -> "done"
      [] p = "close" -> "done"
      [] OTHER -> "done"
NextStmt(p) ==
    CASE p = "open" -> "switch"
      [] p = "switch" -> "enumerate"
      [] p = "enumerate" -> "loop"
      [] p = "loop" -> "save"
      [] p = "save" -> "close"
      [] p = "close" -> "done"
      [] OTHER -> "done"

\* no try/catch anywhere: a call that throws ends the script
Outcome_Swallow(ok, next) == next
Outcome(ok, next) == IF ok THEN next ELSE "aborted"

\* effect of Delete() on a comment list
Remove(s, c) == SelectSeq(s, LAMBDA x : x # c)

SeqToSet(s) == {s[k] : k \in 1..Len(s)}
Count(s, x) == Cardinality({k \in 1..Len(s) : s[k] = x})

Init ==
    /\ fileUrl \in FileUrls
    /\ ext \in Exts
    /\ live \in BOOLEAN
    /\ \E text \in Contents, n \in 0..MaxN :
         fs = [p \in Paths |-> IF p = fileUrl THEN MkDoc(text, n) ELSE NoFile]
    /\ fs0 = fs
    /\ run = 1
    /\ prev = NoPrev
    /\ pc = "open"
    /\ oDocument = "undefined"
    /\ session = NoFile
    /\ sessionOpen = FALSE
    /\ aComments = << >>
    /\ fetched = << >>
    /\ i = 0
    /\ visited = << >>
    /\ log = << >>
    /\ failed = "none"
    /\ written = << >>

\* builder.OpenFile("${fileUrl}")
OpenFile ==
    /\ pc = "open"
    /\ \E ok \in BOOLEAN :
         /\ ok => fs[fileUrl].exists
         /\ log' = Append(log, "OpenFile")
         /\ session' = IF ok THEN fs[fileUrl] ELSE session
         /\ sessionOpen' = ok
         /\ failed' = IF ok THEN failed ELSE "OpenFile"
         /\ pc' = Outcome(ok, NextStmt("open"))
    /\ UNCHANGED <<fileUrl, ext, live, fs, fs0, run, prev, oDocument,
                   aComments, fetched, i, visited, written>>

\* const ext = "${ext}"; var oDocument; switch (ext) { ... }
Switch ==
    /\ pc = "switch"
    /\ LET calls == Accessors(ext) IN
       \E ok \in BOOLEAN :
         /\ (calls = << >>) => ok
         /\ log' = log \o calls
         /\ oDocument' = IF ok /\ calls # << >> THEN calls[Len(calls)] ELSE oDocument
         /\ failed' = IF ok THEN failed ELSE calls[Len(calls)]
         /\ pc' = Outcome(ok, NextStmt("switch"))
    /\ UNCHANGED <<fileUrl, ext, live, fs, fs0, run, prev, session, sessionOpen,
                   aComments, fetched, i, visited, written>>

\* var aComments = oDocument.GetAllComments(); and the loop's var i = 0
GetAllComments ==
    /\ pc = "enumerate"
    /\ IF oDocument = "undefined"
       THEN \* TypeError: member access on undefined, no host call is made
            /\ failed' = "TypeError"
            /\ pc' = Outcome(FALSE, NextStmt("enumerate"))
            /\ UNCHANGED <<log, aComments, fetched>>
       ELSE \E ok \in BOOLEAN :
            /\ log' = Append(log, "GetAllComments")
            /\ aComments' = IF ok THEN session.comments ELSE aComments
            /\ fetched' = IF ok THEN session.comments ELSE fetched
            /\ failed' = IF ok THEN failed ELSE "GetAllComments"
            /\ pc' = Outcome(ok, NextStmt("enumerate"))
    /\ i' = 0
    /\ UNCHANGED <<fileUrl, ext, live, fs, fs0, run, prev, oDocument, session,
                   sessionOpen, visited, written>>

\* for (...; i < aComments.length; i++) { aComments[i].Delete(); }
LoopDelete ==
    /\ pc = "loop"
    /\ LoopCond(i, aComments)
    /\ LET c == aComments[i + 1] IN
       \E ok \in BOOLEAN :
         /\ log' = Append(log, "Delete")
         /\ visited' = Append(visited, c)
         /\ session' = IF ok THEN [session EXCEPT !.comments = Remove(@, c)]
                             ELSE session
         /\ aComments' = IF ok /\ live THEN Remove(aComments, c) ELSE aComments
         /\ i' = IF ok THEN i + 1 ELSE i
         /\ failed' = IF ok THEN failed ELSE "Delete"
         /\ pc' = Outcome(ok, "loop")
    /\ UNCHANGED <<fileUrl, ext, live, fs, fs0, run, prev, oDocument,
                   sessionOpen, fetched, written>>

\* the loop condition is false: fall out of the loop
LoopExit ==
    /\ pc = "loop"
    /\ ~LoopCond(i, aComments)
    /\ pc' = NextStmt("loop")
    /\ UNCHANGED <<fileUrl, ext, live, fs, fs0, run, prev, oDocument, session,
                   sessionOpen, aComments, fetched, i, visited, log, failed,
                   written>>

\* builder.SaveFile(ext, "output.${ext}");
SaveFile ==
    /\ pc = "save"
    /\ \E ok \in BOOLEAN :
         /\ log' = Append(log, "SaveFile")
         /\ fs' = IF ok THEN [fs EXCEPT ![OutputName(ext)] = session] ELSE fs
         /\ written' = IF ok
                       THEN Append(written, [format |-> ext, name |-> OutputName(ext)])
                       ELSE written
         /\ failed' = IF ok THEN failed ELSE "SaveFile"
         /\ pc' = Outcome(ok, NextStmt("save"))
    /\ UNCHANGED <<fileUrl, ext, live, fs0, run, prev, oDocument, session,
                   sessionOpen, aComments, fetched, i, visited>>

\* builder.CloseFile();
CloseFile ==
    /\ pc = "close"
    /\ \E ok \in BOOLEAN :
         /\ log' = Append(log, "CloseFile")
         /\ sessionOpen' = IF ok THEN FALSE ELSE sessionOpen
         /\ failed' = IF ok THEN failed ELSE "CloseFile"
         /\ pc' = Outcome(ok, NextStmt("close"))
    /\ UNCHANGED <<fileUrl, ext, live, fs, fs0, run, prev, oDocument, session,
                   aComments, fetched, i, visited, written>>

\* the host runs the template again, with new values for the placeholders
NextRun ==
    /\ pc \in {"done", "aborted"}
    /\ run < MaxRuns
    /\ run' = run + 1
    /\ fileUrl' \in FileUrls
    /\ ext' \in Exts
    /\ prev' = IF pc = "done" /\ failed = "none" /\ written # << >>
               THEN [path |-> written[Len(written)].name,
                     doc |-> fs[written[Len(written)].name]]
               ELSE NoPrev
    /\ fs0' = fs
    /\ pc' = "open"
    /\ oDocument' = "undefined"
    /\ session' = NoFile
    /\ sessionOpen' = FALSE
    /\ aComments' = << >>
    /\ fetched' = << >>
    /\ i' = 0
    /\ visited' = << >>
    /\ log' = << >>
    /\ failed' = "none"
    /\ written' = << >>
    /\ UNCHANGED <<live, fs>>

Step ==
    \/ OpenFile
    \/ Switch
    \/ GetAllComments
    \/ LoopDelete
    \/ LoopExit
    \/ SaveFile
    \/ CloseFile

Next == Step \/ NextRun

Spec == Init /\ [][Next]_vars

\* the script is synchronous: a statement that can run does run
FairSpec == Spec /\ WF_vars(Step)


\* ------------------------------------------------------------ properties
Last(s) == s[Len(s)]
Issued(op) == Count(log, op) > 0
\* the delete loop of this run has run to its end
LoopCompleted ==
    /\ Issued("GetAllComments")
    /\ failed \notin {"GetAllComments", "Delete"}
    /\ pc # "loop"

\* C1: in a run where no call fails, the session document holds no comment
\* when SaveFile is issued, and the file the run writes holds no comment,
\* whatever the host's Delete does to the array GetAllComments returned.
C1_NoCommentAtSave ==
    /\ (failed = "none" /\ Issued("SaveFile")) => session.comments = << >>
    /\ \A k \in 1..Len(written) : fs[written[k].name].comments = << >>

\* C2: with an unsupported ext no accessor is called, GetAllComments is
\* never called, nothing is saved, and the run ends in a failure.
C2_UnsupportedExtFails ==
    ext \notin Supported =>
        /\ ~Issued("GetDocument")
        /\ ~Issued("GetActiveSheet")
        /\ ~Issued("GetAllComments")
        /\ ~Issued("SaveFile")
        /\ written = << >>
        /\ fs = fs0
        /\ pc \in {"open", "switch", "enumerate", "aborted"}
        /\ pc = "aborted" => failed \in {"OpenFile", "TypeError"}
C2_Witness ==
    /\ ext \notin Supported
    /\ pc = "aborted"
    /\ failed = "TypeError"
    /\ log = <<"OpenFile">>

\* C3: doc/docx call GetDocument exactly once and never GetActiveSheet,
\* xls/xlsx call GetActiveSheet exactly once and never GetDocument; at most
\* one accessor is called in a run, and only after OpenFile.
C3_DispatchExact ==
    LET switched == pc \notin {"open", "switch"} /\ failed # "OpenFile"
        nDoc == Count(log, "GetDocument")
        nSheet == Count(log, "GetActiveSheet")
    IN  /\ nDoc + nSheet <= 1
        /\ ext \in {"doc", "docx"} => nSheet = 0 /\ (switched <=> nDoc = 1)
        /\ ext \in {"xls", "xlsx"} => nDoc = 0 /\ (switched <=> nSheet = 1)
        /\ nDoc + nSheet > 0 => Len(log) >= 2 /\ log[1] = "OpenFile" /\ log[2] # "OpenFile"
        /\ oDocument = "GetDocument" => ext \in {"doc", "docx"}
        /\ oDocument = "GetActiveSheet" => ext \in {"xls", "xlsx"}
C3_Witness ==
    /\ ext = "xlsx"
    /\ oDocument = "GetActiveSheet"
    /\ log[2] = "GetActiveSheet"
    /\ pc = "done"

C5_SourceNeverModified == fs[fileUrl] = fs0[fileUrl]
\* C5 amended: the file at fileUrl keeps its value unless fileUrl names
\* output.<ext> itself; deletions change only the in-session copy; a run
\* that wrote nothing (aborted at open, at a deletion or at save) changed
\* no file.
C5_SourceKeptUnlessAliased ==
    /\ fileUrl # "output." \o ext => fs[fileUrl] = fs0[fileUrl]
    /\ written = << >> => fs = fs0
    /\ failed = "SaveFile" => written = << >>
    /\ fs[fileUrl] # fs0[fileUrl] => Issued("SaveFile") /\ failed # "SaveFile"
C5_Witness ==
    /\ failed = "SaveFile"
    /\ Len(visited) >= 2
    /\ session.comments # fs[fileUrl].comments
    /\ fs = fs0

\* C6: a failure-free run keeps the non-comment content; a document without
\* comments is converted to itself; converting the output of a conversion
\* yields that output again.
C6_ContentKeptAndIdempotent ==
    (pc = "done" /\ failed = "none") =>
        LET out == fs["output." \o ext] IN
        /\ out.content = fs0[fileUrl].content
        /\ fs0[fileUrl].comments = << >> => out = fs0[fileUrl]
        /\ prev.path = fileUrl => out = prev.doc

\* C7: the loop calls Delete exactly once on every entry of the array
\* GetAllComments returned, in index order, and the array is fetched once.
C7_EveryEntryVisitedOnce ==
    /\ Count(log, "GetAllComments") <= 1
    /\ LoopCompleted => visited = fetched

\* C8: host calls are issued in the order OpenFile, accessor,
\* GetAllComments, Delete..., SaveFile, CloseFile; SaveFile comes after the
\* whole loop and CloseFile after SaveFile.
C8_CallOrder ==
    LET Rank(op) == CASE op = "OpenFile" -> 1
                      [] op \in {"GetDocument", "GetActiveSheet"} -> 2
                      [] op = "GetAllComments" -> 3
                      [] op = "Delete" -> 4
                      [] op = "SaveFile" -> 5
                      [] op = "CloseFile" -> 6
                      [] OTHER -> 0
    IN  /\ \A k \in 1..Len(log) : Rank(log[k]) > 0
        /\ \A j, k \in 1..Len(log) :
             j < k => \/ Rank(log[j]) < Rank(log[k])
                      \/ log[j] = "Delete" /\ log[k] = "Delete"
        /\ \A k \in 1..Len(log) :
             \A r \in {1, 2, 3, 5} :
               (r < Rank(log[k])) => \E j \in 1..(k - 1) : Rank(log[j]) = r
        /\ Issued("SaveFile") => i >= Len(aComments) /\ Last(log) # "Delete"
C8_Witness ==
    /\ pc = "done"
    /\ Count(log, "Delete") >= 2
    /\ Last(log) = "CloseFile"
    /\ log[Len(log) - 1] = "SaveFile"

\* C9: once a call fails nothing more is issued: the failed call is the
\* last one of the run; after a failed OpenFile nothing else was called;
\* after a failed Delete the remaining comments are still there and
\* nothing is saved.
C9_AbortOnFirstFailure ==
    failed # "none" =>
        /\ pc = "aborted"
        /\ failed # "TypeError" => Last(log) = failed
        /\ failed \in {"OpenFile", "GetDocument", "GetActiveSheet",
                       "GetAllComments", "SaveFile", "CloseFile"}
             => Count(log, failed) = 1
        /\ failed = "OpenFile" => log = <<"OpenFile">> /\ fs = fs0
        /\ failed = "TypeError" => log = <<"OpenFile">> /\ fs = fs0
        /\ failed = "Delete" =>
             /\ ~Issued("SaveFile")
             /\ written = << >>
             /\ fs = fs0
             /\ Count(visited, Last(visited)) = 1
             /\ (SeqToSet(fetched) \ SeqToSet(visited)) \subseteq SeqToSet(session.comments)
             /\ Last(visited) \in SeqToSet(session.comments)
C9_Witness ==
    /\ failed = "Delete"
    /\ Len(visited) = 2
    /\ Len(fetched) = 3
    /\ Len(session.comments) = 2

\* C10: a run with a supported ext and no failure ends with CloseFile,
\* after exactly one OpenFile and one CloseFile and at most one Delete per
\* fetched comment; a run aborted before CloseFile never calls it and
\* leaves the session it opened unreleased.
C10_Lifecycle ==
    /\ [](pc = "done" => /\ Count(log, "OpenFile") = 1
                         /\ Count(log, "CloseFile") = 1
                         /\ Last(log) = "CloseFile"
                         /\ ~sessionOpen)
    /\ [](Count(log, "Delete") <= Len(fetched))
    /\ []((pc = "aborted" /\ failed # "CloseFile") =>
             /\ ~Issued("CloseFile")
             /\ failed # "OpenFile" => sessionOpen)
    /\ []((ext \in Supported /\ failed = "none") => <>(pc = "done" \/ failed # "none"))
C10_Witness ==
    /\ pc = "done"
    /\ ext = "doc"
    /\ Len(fetched) = 3
    /\ ~sessionOpen

=============================================================================
